---- MODULE Spec2Model ----
(***************************************************************************)
(* Model of the Dice job-application automation (scrapeandapply.py and     *)
(* helper.py): the listing collector, the processed-link store, the fit    *)
(* classifier, the apply-flow automator and the orchestrator main().       *)
(*                                                                         *)
(* Strings whose content the code inspects (links, titles, descriptions,   *)
(* classifier responses) are sequences of one-character strings, so that   *)
(* strip(), upper(), startswith() and the "/" prefix test are computed.    *)
(***************************************************************************)
EXTENDS Integers, Sequences, FiniteSets, TLC

VARIABLES
    \* ---- orchestrator main() ----
    pc,                 \* position of the running process
    run,                \* number of the current process run (1, 2, ...)
    file,               \* seen_links.txt: [exists |-> BOOLEAN, lines |-> Seq(line)]
    links,              \* main: links of the scraped jobs
    seen_links,         \* main: set loaded from the store
    new_links,          \* main: links not in seen_links
    i,                  \* main: 1-based index of the current posting
    submitted,          \* main: counter of submitted applications
    job_title,          \* main: scraped job title
    job_description,    \* main: scraped job description
    full_scraped_text,  \* main: whole scraped text (sequence of words)
    applied,            \* result of easy_apply_on_job
    \* ---- the rendered posting page (environment) ----
    marker,             \* the "Contract Corp To Corp" div is visible on the page
    wizard,             \* the apply flow of the page: sequence of sets of visible controls
    wstep,              \* wizard step currently rendered (0: flow not open)
    pending,            \* a click was made whose effect is not rendered yet
    \* ---- easy_apply_on_job locals ----
    already_on_page,
    easy_btn,           \* "none", "element" or "js_clicked"
    polls,              \* iterations of the apply-control loop that found nothing
                        \* (the loop variable: cleared when the loop is left by break)
    formPolls,          \* iterations made of the form-opened loop (cleared likewise)
    apply_form_opened,
    stepIters,          \* iterations of the final step loop that clicked Next
    \* ---- history of the current posting / run (observation only) ----
    calls,              \* reasoning-service requests made for the current posting
    clicks,             \* controls clicked for the current posting, in order
    firstPoll,          \* the apply control was found by the first poll
    faulted,            \* a Playwright call raised during the current posting
    handled,            \* links whose handling was started in this run, in order
    prevLinks,          \* links computed by the previous run
    prevEnd,            \* how the previous run ended
    startFile,          \* the store file as it was when the current run started
    session,            \* login of the current run: "none", "ok" or "failed"
    job_delay,          \* time.sleep(PER_JOB_WAIT_SECONDS) ran since the last posting began
    outcomes,           \* outcome of each posting of this run whose handling is finished
    verdict,            \* what should_apply_to_job returned for the current posting
    \* ---- scrape_job_listings ----
    first_page,         \* result of the first request: [ok, label]
    total_pages,
    p,                  \* page being fetched
    jobs,               \* jobs collected so far / returned list
    fetched,            \* anchors of the pages fetched successfully, in order (observation)
    attempts,           \* per iteration of the page loop: the page was fetched (observation)
    page_delay,         \* time.sleep(...) ran since the last listing-page request
    \* ---- should_apply_to_job called on its own ----
    cls_in,             \* [title, description, ctorOk, resp]
    cls_out,            \* [raised, ret, called]
    \* ---- store used on its own ----
    added,              \* links passed to append_seen_link so far (observation)
    \* ---- _get_apply_button called on its own ----
    btn_page,           \* what each locator strategy matches on the page
    btn_out             \* the value returned

mainVars  == <<run, links, seen_links, new_links, i, submitted, job_title,
               job_description, full_scraped_text, handled, prevLinks, prevEnd,
               startFile, session, job_delay, outcomes, verdict>>
pageVars  == <<marker, wizard, wstep, pending>>
applyVars == <<already_on_page, easy_btn, polls, formPolls, apply_form_opened,
               stepIters, clicks, firstPoll, faulted>>
scrapeVars == <<first_page, total_pages, p, jobs, fetched, attempts, page_delay>>
clsVars   == <<cls_in, cls_out>>
btnVars   == <<btn_page, btn_out>>
vars == <<pc, file, applied, calls, added, mainVars, pageVars, applyVars,
          scrapeVars, clsVars, btnVars>>

(***************************************************************************)
(* Bounds of the model.                                                    *)
(***************************************************************************)
MaxRuns    == 2   \* process runs explored
MaxJobs    == 2   \* jobs returned by one listing scrape in main
MaxWizard  == 3   \* steps of an apply flow
MaxPages   == 2   \* largest page total / pages served
MaxAnchors == 2   \* job anchors on one listing page
MaxFile    == 3   \* appends explored on the store alone
MaxMatches == 2   \* elements one locator strategy matches on a page

(***************************************************************************)
(* Program constants.                                                      *)
(***************************************************************************)
easy_apply_wait_seconds == 25   \* iterations of the apply-control loop
FormOpenPolls           == 12   \* iterations of the form-opened loop
StepLoopMax             == 6    \* iterations of the final step loop

(***************************************************************************)
(* Character strings.                                                      *)
(***************************************************************************)
Min(a, b) == IF a <= b THEN a ELSE b

IsSpace(c) == c \in {" ", "\n"}

RECURSIVE LStrip(_)
LStrip(s) == IF s # <<>> /\ IsSpace(Head(s)) THEN LStrip(Tail(s)) ELSE s

RECURSIVE RStrip(_)
RStrip(s) ==
    IF s # <<>> /\ IsSpace(s[Len(s)]) THEN RStrip(SubSeq(s, 1, Len(s) - 1)) ELSE s

\* str.strip()
Strip(s) == RStrip(LStrip(s))

UpperChar(c) ==
    CASE c = "y" -> "Y" [] c = "e" -> "E" [] c = "s" -> "S"
      [] c = "n" -> "N" [] c = "o" -> "O" [] OTHER -> c

\* str.upper()
Upper(s) == [k \in 1..Len(s) |-> UpperChar(s[k])]

\* str.startswith(prefix)
StartsWith(s, prefix) ==
    Len(s) >= Len(prefix) /\ SubSeq(s, 1, Len(prefix)) = prefix

SeqToSet(s) == {s[k] : k \in 1..Len(s)}

\* sequences over S of length lo..hi
SeqsOf(S, lo, hi) == UNION {[1..n -> S] : n \in lo..hi}

(***************************************************************************)
(* Processed-link store (seen_links.txt).                                  *)
(***************************************************************************)
Host == <<"h">>                      \* stands for "https://www.dice.com"
LinkA == <<"h", "/", "a">>
LinkB == <<"h", "/", "b">>
LinkPadded == <<"h", "/", "a", " ">> \* an href with trailing white space
LinkBlank == <<" ">>                 \* an href of white space only

NoFile == [exists |-> FALSE, lines |-> <<>>]

\* load_seen_links: a line is the text written up to (and including) its "\n"
LoadSeenLinks(f) ==
    IF ~f.exists THEN {}
    ELSE {Strip(f.lines[k]) : k \in {n \in 1..Len(f.lines) : Strip(f.lines[n]) # <<>>}}

\* a store writer that opens the file for writing instead of appending
AppendSeenLinkRewrite(f, link) == [exists |-> TRUE, lines |-> <<link>>]

\* append_seen_link: open(path, "a") creates the file, then writes link + "\n"
AppendSeenLink(f, link) == [exists |-> TRUE, lines |-> Append(f.lines, link)]

(***************************************************************************)
(* Listing collector: get_total_pages and scrape_job_listings.             *)
(***************************************************************************)
\* An <a data-testid="job-search-job-detail-link">: its text and its href
\* (<<>>: no href attribute or an empty one).
Anchors ==
    { [title |-> "T1", href |-> <<"/", "a">>],
      [title |-> "T2", href |-> LinkA],
      [title |-> "T1", href |-> LinkB],
      [title |-> "T2", href |-> <<>>] }

\* What one listing-page request yields: ok = status 200 and no exception.
PageResponses ==
    {[ok |-> FALSE, anchors |-> <<>>]} \cup
    {[ok |-> TRUE, anchors |-> a] : a \in SeqsOf(Anchors, 0, MaxAnchors)}

\* Tokens of the aria-label of the pagination section.
Word(w) == [w |-> w, n |-> -1]
Num(n) == [w |-> "", n |-> n]
IsNum(t) == t.w = ""
NoSection == <<Word("nosection")>>

Labels ==
    {NoSection} \cup
    {<<Word("Page"), Num(1), Word("of"), Num(n)>> : n \in 0..MaxPages} \cup
    { <<Word("Page"), Num(1)>>,
      <<Word("Page"), Word("x"), Word("of"), Num(2)>>,
      <<Word("Page"), Num(1), Word("of"), Num(2), Word("of"), Num(2)>> }

\* The first request (raise_for_status): on failure first_page = "".
FirstResponses ==
    {[ok |-> FALSE, label |-> NoSection]} \cup {[ok |-> TRUE, label |-> l] : l \in Labels}

\* label.replace("Page", "").replace("of", "").split()
LabelTokens(label) == SelectSeq(label, LAMBDA t : t \notin {Word("Page"), Word("of")})

\* a page count that takes the first number of the label
GetTotalPagesCurrent(first) ==
    IF ~first.ok \/ Word("Page") \notin SeqToSet(first.label) THEN 1
    ELSE LET toks == LabelTokens(first.label) IN
         IF Len(toks) = 2 /\ \A k \in 1..Len(toks) : IsNum(toks[k])
         THEN toks[1].n
         ELSE 1

\* get_total_pages: no section whose label holds "Page" -> 1; int() of a token that
\* is no number, or a token count other than two, raises ValueError -> 1.
GetTotalPages(first) ==
    IF ~first.ok \/ Word("Page") \notin SeqToSet(first.label) THEN 1
    ELSE LET toks == LabelTokens(first.label) IN
         IF Len(toks) = 2 /\ \A k \in 1..Len(toks) : IsNum(toks[k])
         THEN toks[2].n
         ELSE 1

\* The loop over the anchors of one fetched page (lines 111-118).
RECURSIVE ParseAnchors(_)
ParseAnchors(as) ==
    IF as = <<>> THEN <<>>
    ELSE LET a == Head(as)
             href == IF a.href # <<>> /\ Head(a.href) = "/" THEN Host \o a.href ELSE a.href
         IN IF a.href = <<>> THEN ParseAnchors(Tail(as))
            ELSE <<[JobTitle |-> a.title, JobLink |-> href]>> \o ParseAnchors(Tail(as))

RECURSIVE DedupFrom(_, _, _)
DedupFrom(js, seen, deduped) ==
    IF js = <<>> THEN deduped
    ELSE LET j == Head(js) IN
         IF j.JobLink \in seen THEN DedupFrom(Tail(js), seen, deduped)
         ELSE DedupFrom(Tail(js), seen \cup {j.JobLink}, Append(deduped, j))

\* a collector that returns the jobs as collected
DedupJobsNone(js) == js

\* De-duplicate job links (lines 123-132).
DedupJobs(js) == DedupFrom(js, {}, <<>>)

ScrapeIdle ==
    /\ first_page = [ok |-> FALSE, label |-> NoSection]
    /\ total_pages = 0
    /\ p = 0
    /\ jobs = <<>>
    /\ fetched = <<>>
    /\ attempts = <<>>
    /\ page_delay = FALSE

\* lines 85-94: the first request and the page count
ScrapeFirst ==
    /\ pc = "scr_first"
    /\ \E r \in FirstResponses :
          /\ first_page' = r
          /\ total_pages' = GetTotalPages(r)
    /\ p' = 1
    /\ jobs' = <<>>
    /\ fetched' = <<>>
    /\ attempts' = <<>>
    /\ page_delay' = FALSE
    /\ pc' = "scr_page"
    /\ UNCHANGED <<file, applied, calls, added, mainVars, pageVars, applyVars, clsVars,
                   btnVars>>

\* a failed page that ends the page loop
AfterFailedPageBreak == total_pages + 1

\* lines 102-107: a failed page is skipped (continue): the next value of p
AfterFailedPage == p + 1

\* lines 96-121: one iteration of the page loop
ScrapePage ==
    /\ pc = "scr_page"
    /\ p <= total_pages
    /\ \E resp \in PageResponses :
          /\ attempts' = Append(attempts, resp.ok)
          /\ IF resp.ok
             THEN /\ jobs' = jobs \o ParseAnchors(resp.anchors)
                  /\ fetched' = fetched \o resp.anchors
                  /\ page_delay' = TRUE
                  /\ p' = p + 1
             ELSE /\ UNCHANGED <<jobs, fetched>>
                  /\ page_delay' = FALSE
                  /\ p' = AfterFailedPage
    /\ UNCHANGED <<pc, first_page, total_pages>>
    /\ UNCHANGED <<file, applied, calls, added, mainVars, pageVars, applyVars, clsVars,
                   btnVars>>

\* lines 123-132: the loop is over; de-duplicate and return
ScrapeReturn ==
    /\ pc = "scr_page"
    /\ p > total_pages
    /\ jobs' = DedupJobs(jobs)
    /\ pc' = "scr_done"
    /\ UNCHANGED <<first_page, total_pages, p, fetched, attempts, page_delay>>
    /\ UNCHANGED <<file, applied, calls, added, mainVars, pageVars, applyVars, clsVars,
                   btnVars>>

(***************************************************************************)
(* Fit classifier: should_apply_to_job (helper.py).                        *)
(***************************************************************************)
YES == <<"Y", "E", "S">>

\* message.content of the completion (None is read as "")
ReplyTexts ==
    { <<>>, YES, <<"y", "e", "s">>, <<" ", "Y", "e", "s", "\n">>,
      <<"Y", "E", "S", ".">>, <<"N", "O">>, <<"n", "o">>,
      <<"N", "O", " ", "Y", "E", "S">>, <<"Y">>, <<" ">> }

\* What client.chat.completions.create does: raise, or return a completion.
Replies ==
    {[err |-> TRUE, text |-> <<>>]} \cup {[err |-> FALSE, text |-> t] : t \in ReplyTexts}

Titles == {<<>>, <<" ">>, <<"T">>}
Descriptions == {<<>>, <<" ">>, <<"D">>}

\* should_apply_to_job(api_key, resume_text, job_title, job_description):
\*   raised - an exception leaves the function; ret - the value returned;
\*   called - a request was sent to the reasoning service.
\* ctorOk: Groq(api_key=...) on line 123 returns a client (it is outside the try).
ShouldApplyToJob(title, description, ctorOk, reply) ==
    IF Strip(title) = <<>> /\ Strip(description) = <<>>
    THEN [raised |-> FALSE, ret |-> FALSE, called |-> FALSE]
    ELSE IF ~ctorOk
    THEN [raised |-> TRUE, ret |-> FALSE, called |-> FALSE]
    ELSE IF reply.err
    THEN [raised |-> FALSE, ret |-> FALSE, called |-> TRUE]
    ELSE [raised |-> FALSE,
          ret |-> StartsWith(Upper(Strip(reply.text)), YES),
          called |-> TRUE]

ClsNoResult == [raised |-> FALSE, ret |-> FALSE, called |-> FALSE]

ClsIdle ==
    /\ cls_in = [title |-> <<>>, description |-> <<>>, ctorOk |-> TRUE,
                 reply |-> [err |-> FALSE, text |-> <<>>]]
    /\ cls_out = ClsNoResult

\* one call of should_apply_to_job on the inputs cls_in
ClsCall ==
    /\ pc = "cls_call"
    /\ cls_out' = ShouldApplyToJob(cls_in.title, cls_in.description, cls_in.ctorOk,
                                   cls_in.reply)
    /\ pc' = "cls_done"
    /\ UNCHANGED <<cls_in, file, applied, calls, added, mainVars, pageVars, applyVars,
                   scrapeVars, btnVars>>

(***************************************************************************)
(* The store on its own: appends and (re)loads across process restarts.    *)
(***************************************************************************)
StoreLinks == {LinkA, LinkB, LinkPadded, LinkBlank}

\* append_seen_link(link)
StoreAppend ==
    /\ pc \in {"store_loaded", "store_dirty"}
    /\ Len(file.lines) < MaxFile
    /\ \E l \in StoreLinks :
          /\ file' = AppendSeenLink(file, l)
          /\ added' = added \cup {l}
    /\ pc' = "store_dirty"
    /\ UNCHANGED <<applied, calls, mainVars, pageVars, applyVars, scrapeVars, clsVars,
                   btnVars>>

\* a process (re)start: seen_links = load_seen_links()
StoreLoad ==
    /\ pc \in {"store_new", "store_dirty"}
    /\ seen_links' = LoadSeenLinks(file)
    /\ pc' = "store_loaded"
    /\ UNCHANGED <<file, applied, calls, added, run, links, new_links, i, submitted,
                   job_title, job_description, full_scraped_text, handled, prevLinks,
                   prevEnd, startFile, session, job_delay, outcomes, verdict, pageVars,
                   applyVars, scrapeVars, clsVars, btnVars>>

(***************************************************************************)
(* The rendered posting page and its apply flow (environment).             *)
(* wizard[k] is the set of controls step k of the flow shows; a click on   *)
(* the apply control or on Next takes effect when the page renders it      *)
(* (PageRender), and until then the flow shows no control.  Next on the    *)
(* last step leaves that step on screen.                                   *)
(***************************************************************************)
Controls == {"Next", "Submit", "File"}

Wizards == SeqsOf(SUBSET Controls, 1, MaxWizard)

\* the flows main() is explored with
MainWizards ==
    { <<{"Next"}, {"Next"}, {"Submit"}>>,
      <<{"Next"}, {"Submit"}>>,
      <<{"Submit"}>>,
      <<{"Next"}, {"File", "Next"}, {"Submit"}>>,
      <<{"Next"}>>,
      <<{}>> }

Visible(c) == wstep >= 1 /\ ~pending /\ c \in wizard[wstep]

ApplyPcs == {"apply_start", "apply_poll", "apply_click", "form_poll", "step_next",
             "step_submit", "resume_wait", "resume_replace", "resume_select",
             "resume_upload", "step_loop"}

\* the page renders the effect of the last click
PageRender ==
    /\ pc \in ApplyPcs
    /\ pending
    /\ pending' = FALSE
    /\ wstep' = Min(wstep + 1, Len(wizard))
    /\ UNCHANGED <<pc, file, applied, calls, added, mainVars, marker, wizard, applyVars,
                   scrapeVars, clsVars, btnVars>>

(***************************************************************************)
(* Apply-control search: _find_apply_button_anywhere and _get_apply_button.*)
(* A page is described by the elements each strategy's locator matches, in *)
(* document order.  An element is [visible, text]: it is visible, and its  *)
(* text passes the text test the strategy makes on it.  The locators of    *)
(* one strategy are represented by one locator.                            *)
(***************************************************************************)
Elements == [visible : BOOLEAN, text : BOOLEAN]

\* elements selected by their text or accessible name
TextElements == [visible : BOOLEAN, text : {TRUE}]

\* what the script of the shadow-root walk finds: an element whose text matches
\* exists in the document or a shadow root; the script never asks whether it is
\* visible
WalkTargets ==
    { [exists |-> FALSE, visible |-> FALSE],
      [exists |-> TRUE, visible |-> FALSE],
      [exists |-> TRUE, visible |-> TRUE] }

ButtonPages ==
    [ testid : SeqsOf(Elements, 0, MaxMatches),      \* lines 160-164
      text   : SeqsOf(TextElements, 0, MaxMatches),  \* lines 173-180
      role   : SeqsOf(TextElements, 0, MaxMatches),  \* line 187
      button : SeqsOf(TextElements, 0, MaxMatches),  \* lines 195-198
      host   : SeqsOf(TextElements, 0, MaxMatches),  \* lines 220-228
      walk   : WalkTargets ]                         \* lines 241-268

NoButton == [kind |-> "none", strategy |-> -1, index |-> 0]
Found(s, k) == [kind |-> "element", strategy |-> s, index |-> k]
JsClicked == [kind |-> "js_clicked", strategy |-> 5, index |-> 0]

\* loc.count() > 0 and loc.first.is_visible(): only the first match is asked
FirstIsVisible(m) == m # <<>> /\ m[1].visible

\* loops over range(loc.count()): index of the first match that is visible and
\* passes the text test (0: none)
FirstVisibleWithText(m) ==
    IF \E k \in 1..Len(m) : m[k].visible /\ m[k].text
    THEN CHOOSE k \in 1..Len(m) :
            /\ m[k].visible /\ m[k].text
            /\ \A n \in 1..(k - 1) : ~(m[n].visible /\ m[n].text)
    ELSE 0

\* _find_apply_button_anywhere (lines 157-210): strategies 0 to 3
FindApplyButtonAnywhere(pg) ==
    IF FirstIsVisible(pg.testid) /\ pg.testid[1].text THEN Found(0, 1)
    ELSE IF FirstIsVisible(pg.text) THEN Found(1, 1)
    ELSE IF FirstIsVisible(pg.role) THEN Found(2, 1)
    ELSE IF FirstVisibleWithText(pg.button) # 0
    THEN Found(3, FirstVisibleWithText(pg.button))
    ELSE NoButton

\* _get_apply_button (lines 213-273): the whole page, then the buttons of the known
\* web-component hosts, then the script that walks the shadow roots and clicks
GetApplyButton(pg) ==
    IF FindApplyButtonAnywhere(pg) # NoButton THEN FindApplyButtonAnywhere(pg)
    ELSE IF FirstVisibleWithText(pg.host) # 0 THEN Found(4, FirstVisibleWithText(pg.host))
    ELSE IF pg.walk.exists THEN JsClicked
    ELSE NoButton

ButtonIdle ==
    /\ btn_page = [testid |-> <<>>, text |-> <<>>, role |-> <<>>, button |-> <<>>,
                   host |-> <<>>, walk |-> [exists |-> FALSE, visible |-> FALSE]]
    /\ btn_out = NoButton

\* one call of _get_apply_button on the page btn_page
ButtonSearch ==
    /\ pc = "btn_call"
    /\ btn_out' = GetApplyButton(btn_page)
    /\ pc' = "btn_done"
    /\ UNCHANGED <<btn_page, file, applied, calls, added, mainVars, pageVars, applyVars,
                   scrapeVars, clsVars>>

(***************************************************************************)
(* Application automator: easy_apply_on_job.                               *)
(* An action is one blocking step of the function.  err: a Playwright call *)
(* of the step raises (a timeout or any other exception).                  *)
(***************************************************************************)
ApplyFrame ==
    UNCHANGED <<file, calls, added, mainVars, marker, scrapeVars, clsVars, btnVars>>

ApplyReturn(v) == pc' = "apply_ret" /\ applied' = v

ApplyLocalsInit ==
    /\ easy_btn' = "none"
    /\ polls' = 0
    /\ firstPoll' = FALSE
    /\ formPolls' = 0
    /\ apply_form_opened' = FALSE
    /\ stepIters' = 0
    /\ faulted' = FALSE

\* a marker check that passes on every page
HasContractCorpToCorpAny(err) == ~err

\* has_contract_corp_to_corp(page): the div is counted and visible (lines 290-298);
\* an exception of the locator reads as False
HasContractCorpToCorp(err) == marker /\ ~err

\* lines 384-395: optional navigation, then the structural-marker check
ApplyEnter ==
    /\ pc = "apply_start"
    /\ \E navErr \in (IF already_on_page THEN {FALSE} ELSE BOOLEAN), err \in BOOLEAN :
          /\ faulted' = (faulted \/ navErr \/ err)
          /\ IF ~navErr /\ HasContractCorpToCorp(err)
             THEN pc' = "apply_poll" /\ UNCHANGED applied
             ELSE ApplyReturn(FALSE)
    /\ UNCHANGED <<wizard, wstep, pending, already_on_page, easy_btn, polls, firstPoll,
                   formPolls, apply_form_opened, stepIters, clicks>>
    /\ ApplyFrame

\* a poll that finds nothing: the next value of the loop variable
PollMiss == polls + 1

\* lines 398-407: one iteration of the apply-control loop; _get_apply_button
\* returns a locator, "js_clicked" (its script clicked the control), None, or raises
ApplyPoll ==
    /\ pc = "apply_poll"
    /\ \E found \in {"none", "element", "js_clicked", "error"} :
          CASE found = "error" ->
                 /\ ApplyReturn(FALSE)
                 /\ faulted' = TRUE
                 /\ UNCHANGED <<easy_btn, polls, firstPoll>>
            [] found = "none" ->
                 /\ polls' = PollMiss
                 /\ IF polls' >= easy_apply_wait_seconds
                    THEN ApplyReturn(FALSE)
                    ELSE UNCHANGED <<pc, applied>>
                 /\ UNCHANGED <<easy_btn, firstPoll, faulted>>
            [] OTHER ->
                 /\ easy_btn' = found
                 /\ firstPoll' = (polls = 0)
                 /\ polls' = 0
                 /\ pc' = "apply_click"
                 /\ UNCHANGED <<applied, faulted>>
    /\ UNCHANGED <<wizard, wstep, pending, already_on_page, formPolls, apply_form_opened,
                   stepIters, clicks>>
    /\ ApplyFrame

\* lines 409-433: the apply control is clicked (by the locator, by the shadow-root
\* fallback, or it was clicked by the script of _get_apply_button); the page then
\* holds one of the flows W, not rendered yet
ApplyClick(W) ==
    /\ pc = "apply_click"
    /\ \E err \in (IF easy_btn = "element" THEN BOOLEAN ELSE {FALSE}) :
          /\ faulted' = (faulted \/ err)
          /\ IF err
             THEN /\ ApplyReturn(FALSE)
                  /\ UNCHANGED <<wizard, wstep, pending, clicks>>
             ELSE /\ \E w \in W : wizard' = w
                  /\ wstep' = 0
                  /\ pending' = TRUE
                  /\ clicks' = Append(clicks, "Apply")
                  /\ pc' = "form_poll"
                  /\ UNCHANGED applied
    /\ UNCHANGED <<already_on_page, easy_btn, polls, firstPoll, formPolls,
                   apply_form_opened, stepIters>>
    /\ ApplyFrame

\* a form-opened loop that goes on to the steps when its window is over
FormPollBlind ==
    /\ pc = "form_poll"
    /\ IF \E c \in Controls : Visible(c)
       THEN /\ apply_form_opened' = TRUE
            /\ formPolls' = 0
            /\ pc' = "step_next"
       ELSE /\ UNCHANGED apply_form_opened
            /\ formPolls' = formPolls + 1
            /\ IF formPolls' >= FormOpenPolls
               THEN pc' = "step_next"
               ELSE UNCHANGED pc
    /\ UNCHANGED <<applied, wizard, wstep, pending, already_on_page, easy_btn, polls,
                   firstPoll, stepIters, clicks, faulted>>
    /\ ApplyFrame

\* lines 435-453: one iteration of the form-opened loop (Next, Submit or the
\* file-remove button visible); after 12 iterations without one: return False
FormPoll ==
    /\ pc = "form_poll"
    /\ \E err \in BOOLEAN :
          /\ faulted' = (faulted \/ err)
          /\ IF err
             THEN /\ ApplyReturn(FALSE)
                  /\ formPolls' = formPolls + 1
                  /\ UNCHANGED apply_form_opened
             ELSE IF \E c \in Controls : Visible(c)
             THEN /\ apply_form_opened' = TRUE
                  /\ formPolls' = 0
                  /\ pc' = "step_next"
                  /\ UNCHANGED applied
             ELSE /\ UNCHANGED apply_form_opened
                  /\ formPolls' = formPolls + 1
                  /\ IF formPolls' >= FormOpenPolls
                     THEN ApplyReturn(FALSE)
                     ELSE UNCHANGED <<pc, applied>>
    /\ UNCHANGED <<wizard, wstep, pending, already_on_page, easy_btn, polls, firstPoll,
                   stepIters, clicks>>
    /\ ApplyFrame

\* A step that clicks a control, as a choice of err (a Playwright call of the step
\* raises) and done (the click was made): a click is made only on a control the step
\* found (can); without an exception the click is made exactly when it can be; with
\* one, the exception came before the click or after it (click() waiting for what the
\* click started, or the wait_for_timeout that follows).
ClickOutcome(err, done, can) == (done => can) /\ (~err => (done <=> can))

\* a click on Submit: the page closes the flow or leaves the step on screen
SubmitClick ==
    /\ clicks' = Append(clicks, "Submit")
    /\ pending' = FALSE
    /\ \E closes \in BOOLEAN : wstep' = IF closes THEN 0 ELSE wstep

\* lines 455-468: click Next if one is visible; exceptions are swallowed
StepNext ==
    /\ pc = "step_next"
    /\ \E err \in BOOLEAN, done \in BOOLEAN :
          /\ ClickOutcome(err, done, Visible("Next"))
          /\ faulted' = (faulted \/ err)
          /\ IF done
             THEN clicks' = Append(clicks, "Next") /\ pending' = TRUE
             ELSE UNCHANGED <<clicks, pending>>
    /\ pc' = "step_submit"
    /\ UNCHANGED <<applied, wizard, wstep, already_on_page, easy_btn, polls, firstPoll,
                   formPolls, apply_form_opened, stepIters>>
    /\ ApplyFrame

\* lines 470-484: click Submit if one is visible and return True; exceptions are
\* swallowed
StepSubmit ==
    /\ pc = "step_submit"
    /\ \E err \in BOOLEAN, done \in BOOLEAN :
          /\ ClickOutcome(err, done, Visible("Submit"))
          /\ faulted' = (faulted \/ err)
          /\ IF done THEN SubmitClick ELSE UNCHANGED <<clicks, pending, wstep>>
          /\ IF done /\ ~err
             THEN ApplyReturn(TRUE)
             ELSE pc' = "resume_wait" /\ UNCHANGED applied
    /\ UNCHANGED <<wizard, already_on_page, easy_btn, polls, firstPoll, formPolls,
                   apply_form_opened, stepIters>>
    /\ ApplyFrame

\* a fallback that starts the steps again when it finds no Submit
ResumeWaitRetry ==
    /\ pc = "resume_wait"
    /\ faulted' = faulted
    /\ IF Visible("File")
       THEN pc' = "resume_replace" /\ UNCHANGED <<clicks, applied, pending, wstep>>
       ELSE IF Visible("Submit")
       THEN SubmitClick /\ ApplyReturn(TRUE)
       ELSE pc' = "step_next" /\ UNCHANGED <<clicks, applied, pending, wstep>>
    /\ UNCHANGED <<wizard, already_on_page, easy_btn, polls, firstPoll, formPolls,
                   apply_form_opened, stepIters>>
    /\ ApplyFrame

\* lines 486-505: wait for the file-remove button (another exception than its timeout
\* ends the flow); on its timeout click Submit if one is visible and return True
\* (exceptions are swallowed), else return False
ResumeWait ==
    /\ pc = "resume_wait"
    /\ \E err \in BOOLEAN, done \in BOOLEAN :
          /\ ClickOutcome(err, done, ~Visible("File") /\ Visible("Submit"))
          /\ faulted' = (faulted \/ err)
          /\ IF Visible("File") /\ ~err
             THEN pc' = "resume_replace" /\ UNCHANGED <<clicks, applied, pending, wstep>>
             ELSE IF done
             THEN SubmitClick /\ ApplyReturn(~err)
             ELSE ApplyReturn(FALSE) /\ UNCHANGED <<clicks, pending, wstep>>
    /\ UNCHANGED <<wizard, already_on_page, easy_btn, polls, firstPoll, formPolls,
                   apply_form_opened, stepIters>>
    /\ ApplyFrame

\* a resume action whose timeout is swallowed
ResumeActionSwallow(at, name, next) ==
    /\ pc = at
    /\ \E err \in BOOLEAN :
          /\ faulted' = (faulted \/ err)
          /\ clicks' = IF err THEN clicks ELSE Append(clicks, name)
    /\ pc' = next
    /\ UNCHANGED <<applied, wizard, wstep, pending, already_on_page, easy_btn, polls,
                   firstPoll, formPolls, apply_form_opened, stepIters>>
    /\ ApplyFrame

\* one action of the resume upload: it is done and recorded; when a call of it
\* raises (before or after the action was done) the automator returns False
\* (lines 535-540)
ResumeAction(at, name, next) ==
    /\ pc = at
    /\ \E err \in BOOLEAN, done \in BOOLEAN :
          /\ ClickOutcome(err, done, TRUE)
          /\ faulted' = (faulted \/ err)
          /\ clicks' = IF done THEN Append(clicks, name) ELSE clicks
          /\ IF err THEN ApplyReturn(FALSE) ELSE pc' = next /\ UNCHANGED applied
    /\ UNCHANGED <<wizard, wstep, pending, already_on_page, easy_btn, polls, firstPoll,
                   formPolls, apply_form_opened, stepIters>>
    /\ ApplyFrame

\* line 507: page.click('button.file-remove:has-text("Replace")')
ResumeReplace == ResumeAction("resume_replace", "Replace", "resume_select")

\* lines 508-510: wait for the file input, set_input_files
ResumeSelect == ResumeAction("resume_select", "SelectFile", "resume_upload")

\* lines 512-515: wait for the upload control, click it
ResumeUpload == ResumeAction("resume_upload", "Upload", "step_loop")

\* an iteration of the step loop that is not counted
StepLoopCountNone == stepIters

\* an iteration of the step loop that clicked Next: the next value of the counter
StepLoopCount == stepIters + 1

\* the control an iteration of the step loop goes for: Submit before Next
StepLoopTarget ==
    IF Visible("Submit") THEN "Submit" ELSE IF Visible("Next") THEN "Next" ELSE "none"

\* lines 517-533: one iteration of the step loop: Submit visible -> click, return
\* True; Next visible -> click; neither, or 6 iterations done -> return False; an
\* exception ends the flow (lines 535-540)
StepLoop ==
    /\ pc = "step_loop"
    /\ IF stepIters >= StepLoopMax
       THEN ApplyReturn(FALSE) /\ UNCHANGED <<clicks, pending, wstep, stepIters, faulted>>
       ELSE \E err \in BOOLEAN, done \in BOOLEAN :
               /\ ClickOutcome(err, done, StepLoopTarget # "none")
               /\ faulted' = (faulted \/ err)
               /\ IF done /\ StepLoopTarget = "Submit"
                  THEN /\ SubmitClick
                       /\ ApplyReturn(~err)
                       /\ UNCHANGED stepIters
                  ELSE IF done
                  THEN /\ clicks' = Append(clicks, "Next")
                       /\ pending' = TRUE
                       /\ UNCHANGED wstep
                       /\ IF err
                          THEN ApplyReturn(FALSE) /\ UNCHANGED stepIters
                          ELSE stepIters' = StepLoopCount /\ UNCHANGED <<pc, applied>>
                  ELSE ApplyReturn(FALSE) /\ UNCHANGED <<clicks, pending, wstep, stepIters>>
    /\ UNCHANGED <<wizard, already_on_page, easy_btn, polls, firstPoll, formPolls,
                   apply_form_opened>>
    /\ ApplyFrame

\* the steps of easy_apply_on_job
ApplyStep(W) ==
    \/ ApplyEnter
    \/ ApplyPoll
    \/ ApplyClick(W)
    \/ FormPoll
    \/ StepNext
    \/ StepSubmit
    \/ ResumeWait
    \/ ResumeReplace
    \/ ResumeSelect
    \/ ResumeUpload
    \/ StepLoop

(***************************************************************************)
(* Eligibility filter on the scraped text.                                 *)
(***************************************************************************)
LowerWord(w) == IF w = "Contract" THEN "contract" ELSE w

\* a text check that every text passes
HasContractCorpToCorpInTextAny(text) == TRUE

MarkerWords == <<"contract", "corp", "to", "corp">>

\* has_contract_corp_to_corp_in_text: re "contract\s+corp\s+to\s+corp", ignoring
\* case, searched in the text (a sequence of words)
HasContractCorpToCorpInText(text) ==
    /\ text # <<>>
    /\ \E k \in 1..Len(text) :
          /\ k + 3 <= Len(text)
          /\ [n \in 1..4 |-> LowerWord(text[k + n - 1])] = MarkerWords

Texts ==
    { <<>>, <<"x">>, <<"x", "Contract", "corp", "to", "corp">>,
      <<"contract", "corp", "x", "to", "corp">> }

\* scrape_job_description returns (title, description, full_content), all stripped;
\* ("", "", "") when the navigation raises
ScrapeOutcomes ==
    {[title |-> <<>>, description |-> <<>>, text |-> <<>>]} \cup
    [title : {<<"T">>}, description : {<<>>, <<"D">>}, text : Texts]

(***************************************************************************)
(* Orchestrator: main().                                                   *)
(***************************************************************************)
MainLinks == {LinkA, LinkPadded}

\* lists scrape_job_listings can hold before its de-duplication
ScrapedJobs == SeqsOf([JobTitle : {"T1"}, JobLink : MainLinks], 0, MaxJobs)

MainFrame == UNCHANGED <<added, scrapeVars, clsVars, btnVars>>

PostingReset ==
    /\ applied' = FALSE
    /\ calls' = 0
    /\ clicks' = <<>>
    /\ wizard' = <<>>
    /\ wstep' = 0
    /\ pending' = FALSE
    /\ already_on_page' = TRUE
    /\ ApplyLocalsInit

\* a commit that writes the link twice
CommitTwice ==
    /\ file' = AppendSeenLink(AppendSeenLink(file, new_links[i]), new_links[i])
    /\ seen_links' = seen_links \cup {new_links[i]}
    /\ job_delay' = TRUE
    /\ i' = i + 1
    /\ pc' = "loop"

\* append_seen_link(link); seen_links.add(link); time.sleep(...); next posting
Commit ==
    /\ file' = AppendSeenLink(file, new_links[i])
    /\ seen_links' = seen_links \cup {new_links[i]}
    /\ job_delay' = TRUE
    /\ i' = i + 1
    /\ pc' = "loop"

\* lines 546-555: scrape, load the store, compute the new links
MainScrape ==
    /\ pc = "main_start"
    /\ \E js \in ScrapedJobs :
          LET deduped == DedupJobs(js)
              lnks == [k \in 1..Len(deduped) |-> deduped[k].JobLink]
              seen == LoadSeenLinks(file)
              new == SelectSeq(lnks, LAMBDA l : l \notin seen)
          IN /\ links' = lnks
             /\ seen_links' = seen
             /\ new_links' = new
             /\ pc' = IF new = <<>> THEN "exit" ELSE "login"
    /\ UNCHANGED <<file, applied, calls, run, i, submitted, job_title, job_description,
                   full_scraped_text, handled, prevLinks, prevEnd, startFile,
                   session, job_delay, outcomes, verdict, pageVars, applyVars>>
    /\ MainFrame

\* a login whose failure is logged and the loop entered all the same
LoginContinue ==
    /\ pc = "login"
    /\ \E ok \in BOOLEAN : session' = IF ok THEN "ok" ELSE "failed"
    /\ pc' = "loop"
    /\ i' = 1
    /\ submitted' = 0
    /\ UNCHANGED <<file, applied, calls, run, links, seen_links, new_links, job_title,
                   job_description, full_scraped_text, handled, prevLinks, prevEnd,
                   startFile, job_delay, outcomes, verdict, pageVars, applyVars>>
    /\ MainFrame

\* lines 557-563: browser launch and login(page); a failure leaves main()
Login ==
    /\ pc = "login"
    /\ \E ok \in BOOLEAN :
          IF ok
          THEN pc' = "loop" /\ i' = 1 /\ submitted' = 0 /\ session' = "ok"
          ELSE pc' = "aborted" /\ UNCHANGED <<i, submitted>> /\ session' = "failed"
    /\ UNCHANGED <<file, applied, calls, run, links, seen_links, new_links, job_title,
                   job_description, full_scraped_text, handled, prevLinks, prevEnd,
                   startFile, job_delay, outcomes, verdict, pageVars, applyVars>>
    /\ MainFrame

\* lines 564-568: the next posting: scrape_job_description(page, link)
ScrapeDescription ==
    /\ pc = "loop"
    /\ i <= Len(new_links)
    /\ \E d \in ScrapeOutcomes :
          /\ job_title' = d.title
          /\ job_description' = d.description
          /\ full_scraped_text' = d.text
    /\ \E m \in BOOLEAN : marker' = m
    /\ handled' = Append(handled, new_links[i])
    /\ PostingReset
    /\ job_delay' = FALSE
    /\ verdict' = "none"
    /\ pc' = "scraped"
    /\ UNCHANGED <<file, run, links, seen_links, new_links, i, submitted, prevLinks,
                   prevEnd, startFile, session, outcomes>>
    /\ MainFrame

\* lines 569-574: no job description
SkipNoDescription ==
    /\ pc = "scraped"
    /\ job_description = <<>>
    /\ Commit
    /\ outcomes' = Append(outcomes, "Skipped")
    /\ UNCHANGED <<applied, calls, run, links, new_links, submitted, job_title,
                   job_description, full_scraped_text, handled, prevLinks, prevEnd,
                   startFile, session, verdict, pageVars, applyVars>>
    /\ MainFrame

\* lines 576-582: the marker is not in the scraped text
SkipNoMarkerText ==
    /\ pc = "scraped"
    /\ job_description # <<>>
    /\ ~HasContractCorpToCorpInText(full_scraped_text)
    /\ Commit
    /\ outcomes' = Append(outcomes, "Skipped")
    /\ UNCHANGED <<applied, calls, run, links, new_links, submitted, job_title,
                   job_description, full_scraped_text, handled, prevLinks, prevEnd,
                   startFile, session, verdict, pageVars, applyVars>>
    /\ MainFrame

\* lines 584-593: should_apply_to_job; an exception of it leaves main(); NO skips
\* the posting; YES calls easy_apply_on_job(page, link, already_on_page=True)
Classify ==
    /\ pc = "scraped"
    /\ job_description # <<>>
    /\ HasContractCorpToCorpInText(full_scraped_text)
    /\ \E ctorOk \in BOOLEAN, reply \in Replies :
          LET r == ShouldApplyToJob(job_title, job_description, ctorOk, reply) IN
          /\ calls' = IF r.called THEN calls + 1 ELSE calls
          /\ IF r.raised
             THEN /\ pc' = "crashed"
                  /\ UNCHANGED <<file, seen_links, i, job_delay, outcomes, verdict>>
             ELSE IF ~r.ret
             THEN /\ Commit
                  /\ verdict' = "NO"
                  /\ outcomes' = Append(outcomes, "Skipped")
             ELSE /\ pc' = "apply_start"
                  /\ verdict' = "YES"
                  /\ UNCHANGED <<file, seen_links, i, job_delay, outcomes>>
    /\ UNCHANGED <<applied, run, links, new_links, submitted, job_title,
                   job_description, full_scraped_text, handled, prevLinks, prevEnd,
                   startFile, session, pageVars, applyVars>>
    /\ MainFrame

\* a counter that counts every apply attempt
AfterApplyCountAll ==
    /\ pc = "apply_ret"
    /\ Commit
    /\ submitted' = submitted + 1
    /\ outcomes' = Append(outcomes, IF applied THEN "Submitted" ELSE "Failed")
    /\ UNCHANGED <<applied, calls, run, links, new_links, job_title, job_description,
                   full_scraped_text, handled, prevLinks, prevEnd, startFile,
                   session, verdict, pageVars, applyVars>>
    /\ MainFrame

\* lines 595-601: easy_apply_on_job returned
AfterApply ==
    /\ pc = "apply_ret"
    /\ Commit
    /\ submitted' = IF applied THEN submitted + 1 ELSE submitted
    /\ outcomes' = Append(outcomes, IF applied THEN "Submitted" ELSE "Failed")
    /\ UNCHANGED <<applied, calls, run, links, new_links, job_title, job_description,
                   full_scraped_text, handled, prevLinks, prevEnd, startFile,
                   session, verdict, pageVars, applyVars>>
    /\ MainFrame

\* lines 603-605: the loop is over
Finish ==
    /\ pc = "loop"
    /\ i > Len(new_links)
    /\ pc' = "done"
    /\ UNCHANGED <<file, applied, calls, mainVars, pageVars, applyVars>>
    /\ MainFrame

RunEnded == pc \in {"exit", "done", "aborted", "crashed"}

\* the script is started again (line 608): a new process, the same store file
Restart ==
    /\ RunEnded
    /\ run < MaxRuns
    /\ run' = run + 1
    /\ prevLinks' = links
    /\ prevEnd' = pc
    /\ startFile' = file
    /\ session' = "none"
    /\ job_delay' = FALSE
    /\ outcomes' = <<>>
    /\ verdict' = "none"
    /\ links' = <<>>
    /\ seen_links' = {}
    /\ new_links' = <<>>
    /\ i' = 0
    /\ submitted' = 0
    /\ job_title' = <<>>
    /\ job_description' = <<>>
    /\ full_scraped_text' = <<>>
    /\ handled' = <<>>
    /\ marker' = FALSE
    /\ PostingReset
    /\ pc' = "main_start"
    /\ UNCHANGED file
    /\ MainFrame

(***************************************************************************)
(* Specifications.                                                         *)
(***************************************************************************)
MainIdle ==
    /\ run = 1
    /\ links = <<>>
    /\ seen_links = {}
    /\ new_links = <<>>
    /\ i = 0
    /\ submitted = 0
    /\ job_title = <<>>
    /\ job_description = <<>>
    /\ full_scraped_text = <<>>
    /\ handled = <<>>
    /\ prevLinks = <<>>
    /\ prevEnd = "none"
    /\ startFile = NoFile
    /\ session = "none"
    /\ job_delay = FALSE
    /\ outcomes = <<>>
    /\ verdict = "none"

ApplyIdle ==
    /\ applied = FALSE
    /\ calls = 0
    /\ clicks = <<>>
    /\ wizard = <<>>
    /\ wstep = 0
    /\ pending = FALSE
    /\ easy_btn = "none"
    /\ polls = 0
    /\ firstPoll = FALSE
    /\ faulted = FALSE
    /\ formPolls = 0
    /\ apply_form_opened = FALSE
    /\ stepIters = 0

\* the whole program: runs of main() over one store file
Init ==
    /\ pc = "main_start"
    /\ file = NoFile
    /\ added = {}
    /\ marker = FALSE
    /\ already_on_page = TRUE
    /\ MainIdle
    /\ ApplyIdle
    /\ ScrapeIdle
    /\ ClsIdle
    /\ ButtonIdle

Next ==
    \/ MainScrape
    \/ Login
    \/ ScrapeDescription
    \/ SkipNoDescription
    \/ SkipNoMarkerText
    \/ Classify
    \/ ApplyStep(MainWizards)
    \/ PageRender
    \/ AfterApply
    \/ Finish
    \/ Restart

Spec == Init /\ [][Next]_vars

\* easy_apply_on_job on its own, on any page
InitApply ==
    /\ pc = "apply_start"
    /\ file = NoFile
    /\ added = {}
    /\ marker \in BOOLEAN
    /\ already_on_page \in BOOLEAN
    /\ MainIdle
    /\ ApplyIdle
    /\ ScrapeIdle
    /\ ClsIdle
    /\ ButtonIdle

NextApply == ApplyStep(Wizards) \/ PageRender

SpecApply == InitApply /\ [][NextApply]_vars

\* scrape_job_listings on its own
InitScrape ==
    /\ pc = "scr_first"
    /\ file = NoFile
    /\ added = {}
    /\ marker = FALSE
    /\ already_on_page = TRUE
    /\ MainIdle
    /\ ApplyIdle
    /\ ScrapeIdle
    /\ ClsIdle
    /\ ButtonIdle

NextScrape == ScrapeFirst \/ ScrapePage \/ ScrapeReturn

SpecScrape == InitScrape /\ [][NextScrape]_vars

\* should_apply_to_job on its own
InitClassify ==
    /\ pc = "cls_call"
    /\ file = NoFile
    /\ added = {}
    /\ marker = FALSE
    /\ already_on_page = TRUE
    /\ MainIdle
    /\ ApplyIdle
    /\ ScrapeIdle
    /\ cls_in \in [title : Titles, description : Descriptions, ctorOk : BOOLEAN,
                   reply : Replies]
    /\ cls_out = ClsNoResult
    /\ ButtonIdle

NextClassify == ClsCall

SpecClassify == InitClassify /\ [][NextClassify]_vars

\* the store on its own
InitStore ==
    /\ pc = "store_new"
    /\ file = NoFile
    /\ added = {}
    /\ marker = FALSE
    /\ already_on_page = TRUE
    /\ MainIdle
    /\ ApplyIdle
    /\ ScrapeIdle
    /\ ClsIdle
    /\ ButtonIdle

NextStore == StoreAppend \/ StoreLoad

SpecStore == InitStore /\ [][NextStore]_vars

\* _get_apply_button on its own, on any page
InitButton ==
    /\ pc = "btn_call"
    /\ file = NoFile
    /\ added = {}
    /\ marker = FALSE
    /\ already_on_page = TRUE
    /\ MainIdle
    /\ ApplyIdle
    /\ ScrapeIdle
    /\ ClsIdle
    /\ btn_page \in ButtonPages
    /\ btn_out = NoButton

NextButton == ButtonSearch

SpecButton == InitButton /\ [][NextButton]_vars

(***************************************************************************)
(* Properties.                                                             *)
(***************************************************************************)
FileLinks == SeqToSet(file.lines)

\* the posting handled last (in flight, or just committed)
LastHandled == handled[Len(handled)]

\* a posting is in flight: its handling has started and it is not committed
InFlight == pc \in ({"scraped", "apply_ret", "crashed"} \cup ApplyPcs)

\* the lines the store file held when the current run started
StoreAtRunStart ==
    LET written == IF InFlight THEN Len(handled) - 1 ELSE Len(handled)
    IN [exists |-> file.exists /\ Len(file.lines) > written,
        lines |-> SubSeq(file.lines, 1, Len(file.lines) - written)]

\* C1: a posting whose rendered page does not show the structural marker never
\* causes a request to the reasoning service: its call count stays zero.
C1_NoClassifierCallWithoutStructuralMarker ==
    (pc \in ({"scraped", "apply_ret", "loop", "done"} \cup ApplyPcs) /\ ~marker)
        => calls = 0

C2Flow == <<{"Next"}, {"Next"}, {"Submit"}>>

\* the scenario of C2: both markers present, affirmative verdict, the apply control
\* found by the first poll, the flow Next, Next, Submit opened, every click
\* rendered, and no exception
C2Scenario ==
    /\ marker
    /\ HasContractCorpToCorpInText(full_scraped_text)
    /\ firstPoll
    /\ apply_form_opened
    /\ wizard = C2Flow
    /\ ~pending
    /\ ~faulted

\* C2: in the scenario (Next on step 1, Next on step 2, Submit on step 3, no resume
\* affordance) easy_apply_on_job clicks Next twice, then Submit, returns True, and
\* the posting's link is in the store once the posting is committed.
C2_TwoNextThenSubmitIsSubmitted ==
    /\ (C2Scenario /\ pc = "apply_ret")
          => (applied /\ clicks = <<"Apply", "Next", "Next", "Submit">>)
    /\ (C2Scenario /\ pc = "loop") => (applied /\ LastHandled \in FileLinks)

\* C3: once a run whose login succeeded has ended, the store holds every link that
\* was new at the start of the run.
C3_EveryNewLinkIsRecorded ==
    pc \in {"done", "crashed"} => \A k \in 1..Len(new_links) : new_links[k] \in FileLinks

\* C4: a run that follows a completed run with the same listing results has no new
\* link; and no run handles a link that load_seen_links returned at its start.
C4_SecondRunHasNothingNew ==
    /\ (run >= 2 /\ prevEnd \in {"done", "exit"} /\ pc \in {"exit", "login"}
           /\ links = prevLinks)
          => new_links = <<>>
    /\ \A k \in 1..Len(handled) : handled[k] \notin LoadSeenLinks(StoreAtRunStart)

\* C5: should_apply_to_job raises nothing, and returns True exactly when a request
\* was made, completed without error, and its stripped, upper-cased response begins
\* with YES.
C5_ClassifierIsConservative ==
    pc = "cls_done" =>
        /\ ~cls_out.raised
        /\ cls_out.ret <=>
              /\ cls_out.called
              /\ ~cls_in.reply.err
              /\ StartsWith(Upper(Strip(cls_in.reply.text)), YES)

\* the number of steps easy_apply_on_job can still take
ApplyMeasure ==
    CASE pc = "apply_start" -> StepLoopMax + FormOpenPolls + easy_apply_wait_seconds + 9
      [] pc = "apply_poll" ->
           StepLoopMax + FormOpenPolls + 8 + (easy_apply_wait_seconds - polls)
      [] pc = "apply_click" -> StepLoopMax + FormOpenPolls + 8
      [] pc = "form_poll" -> StepLoopMax + 7 + (FormOpenPolls - formPolls)
      [] pc = "step_next" -> StepLoopMax + 7
      [] pc = "step_submit" -> StepLoopMax + 6
      [] pc = "resume_wait" -> StepLoopMax + 5
      [] pc = "resume_replace" -> StepLoopMax + 4
      [] pc = "resume_select" -> StepLoopMax + 3
      [] pc = "resume_upload" -> StepLoopMax + 2
      [] pc = "step_loop" -> 1 + (StepLoopMax - stepIters)
      [] OTHER -> 0

\* C6: whatever the page shows and whenever it renders, every step of
\* easy_apply_on_job lowers a measure that starts at 52 and is never negative, so a
\* terminal outcome is reached after a bounded number of steps; the loops make at
\* most 25 apply-control polls, 12 form-open polls and 6 step-loop iterations.
C6_AutomatorTerminatesWithinBounds ==
    /\ [][ApplyStep(Wizards) => ApplyMeasure' < ApplyMeasure]_vars
    /\ [](/\ ApplyMeasure >= 0
          /\ polls <= easy_apply_wait_seconds
          /\ formPolls <= FormOpenPolls
          /\ stepIters <= StepLoopMax
          /\ (pc \in ApplyPcs => ApplyMeasure >= 1))

\* the step loop after the resume upload clicked Next six times and gave up
C6_Witness == pc = "apply_ret" /\ stepIters = StepLoopMax /\ ~applied /\ ~faulted

\* the link identity of an anchor: a relative href made absolute
Identity(a) == IF Head(a.href) = "/" THEN Host \o a.href ELSE a.href

\* the anchors of the fetched pages that carry an href
Occ == {k \in 1..Len(fetched) : fetched[k].href # <<>>}

FirstOcc(id) ==
    CHOOSE k \in Occ :
        /\ Identity(fetched[k]) = id
        /\ \A m \in Occ : Identity(fetched[m]) = id => k <= m

\* C7: the list scrape_job_listings returns holds every link identity of the
\* fetched pages exactly once and nothing else, each with the title of its first
\* occurrence, in the order of the first occurrences.
C7_DedupKeepsFirstOccurrence ==
    pc = "scr_done" =>
        /\ \A k \in Occ :
              Cardinality({n \in 1..Len(jobs) : jobs[n].JobLink = Identity(fetched[k])}) = 1
        /\ \A n \in 1..Len(jobs) :
              /\ \E k \in Occ : Identity(fetched[k]) = jobs[n].JobLink
              /\ jobs[n].JobTitle = fetched[FirstOcc(jobs[n].JobLink)].title
        /\ \A n1, n2 \in 1..Len(jobs) :
              n1 < n2 => FirstOcc(jobs[n1].JobLink) < FirstOcc(jobs[n2].JobLink)

\* a link occurs twice with two titles, once relative and once absolute, and
\* another link follows
C7_Witness ==
    /\ pc = "scr_done"
    /\ Len(jobs) = 2
    /\ \E k, m \in Occ :
          /\ k < m
          /\ Identity(fetched[k]) = Identity(fetched[m])
          /\ fetched[k].href # fetched[m].href
          /\ fetched[k].title # fetched[m].title

\* C8: when the 12 polls after the apply click show no form-opened indicator,
\* easy_apply_on_job is over with False, Apply is the only control clicked, and
\* once the posting is committed its link is in the store.
C8_FormNotOpenedFails ==
    formPolls >= FormOpenPolls =>
        /\ pc \notin ApplyPcs
        /\ ~apply_form_opened
        /\ ~applied
        /\ clicks = <<"Apply">>
        /\ (pc # "apply_ret" => LastHandled \in FileLinks)

\* the window ran out without any exception and the posting is committed
C8_Witness ==
    /\ formPolls = FormOpenPolls
    /\ ~faulted
    /\ pc = "loop"
    /\ submitted = 0

\* C9: no error of a posting leaves the per-posting loop: after a successful
\* login main() never ends by an exception.
C9_PostingErrorsStayInTheLoop == pc # "crashed"

\* C10: with no file load_seen_links returns the empty set, and after any appends
\* and restarts it returns a set that holds every link as it was passed to
\* append_seen_link.
C10_StoreRoundTrip ==
    pc = "store_loaded" =>
        /\ (~file.exists => seen_links = {})
        /\ \A l \in added : l \in seen_links

IsPrefix(a, b) == Len(a) <= Len(b) /\ SubSeq(b, 1, Len(a)) = a

\* the postings of the current run whose handling is finished
Finished == SubSeq(handled, 1, IF InFlight THEN Len(handled) - 1 ELSE Len(handled))

\* C11: no step removes or rewrites a line of the store file; and in every state a
\* run can stop in, the file still begins with the lines it held when the run
\* started, every link loadable then is loadable now, the link of every posting
\* whose handling finished is a line of the file, and at most one handled posting
\* (the one in flight) has no line.
C11_StoreOnlyGrows ==
    /\ [][(file.exists => file'.exists) /\ IsPrefix(file.lines, file'.lines)]_vars
    /\ [](/\ IsPrefix(startFile.lines, file.lines)
          /\ LoadSeenLinks(startFile) \subseteq LoadSeenLinks(file)
          /\ \A k \in 1..Len(Finished) : Finished[k] \in FileLinks
          /\ Len(handled) - Len(Finished) <= 1)

\* a second run that found two lines in the store crashed on its first posting
C11_Witness ==
    /\ run = 2
    /\ pc = "crashed"
    /\ Len(startFile.lines) = 2
    /\ file = startFile

C13_SubmitBeforeNext ==
    [][(/\ pc \in {"step_next", "step_submit", "resume_wait", "step_loop"}
        /\ Visible("Submit")
        /\ clicks' # clicks)
          => (clicks' = Append(clicks, "Submit") /\ applied' /\ pc' = "apply_ret")]_vars

\* strategy s (0 to 5, in the order tried) matches a visible element that passes
\* its text test
HasVisibleMatch(s) ==
    LET m == CASE s = 0 -> btn_page.testid [] s = 1 -> btn_page.text
               [] s = 2 -> btn_page.role [] s = 3 -> btn_page.button
               [] OTHER -> btn_page.host
    IN IF s = 5 THEN btn_page.walk.exists /\ btn_page.walk.visible
       ELSE \E k \in 1..Len(m) : m[k].visible /\ m[k].text

\* the element _get_apply_button returned is a visible match of strategy s
ReturnedVisibleMatchOf(s) ==
    LET m == CASE s = 0 -> btn_page.testid [] s = 1 -> btn_page.text
               [] s = 2 -> btn_page.role [] s = 3 -> btn_page.button
               [] OTHER -> btn_page.host
    IN IF s = 5 THEN btn_out = JsClicked
       ELSE /\ btn_out.kind = "element"
            /\ btn_out.strategy = s
            /\ btn_out.index \in 1..Len(m)
            /\ m[btn_out.index].visible /\ m[btn_out.index].text

\* C14: when some strategy has a visible match, _get_apply_button returns a visible
\* match of the first such strategy in the order tried; it returns None only when
\* no strategy has a visible match.
C14_FirstVisibleMatchWins ==
    pc = "btn_done" =>
        /\ \A s \in 0..5 :
              (HasVisibleMatch(s) /\ \A t \in 0..(s - 1) : ~HasVisibleMatch(t))
                  => ReturnedVisibleMatchOf(s)
        /\ btn_out = NoButton => \A s \in 0..5 : ~HasVisibleMatch(s)

\* C15: easy_apply_on_job gets past its marker check only on a page that shows the
\* marker; on a page without it the function is over with False and without any
\* poll for the apply control, any control found and any click.
C15_NoMarkerNoControl ==
    /\ pc \in (ApplyPcs \ {"apply_start"}) => marker
    /\ (pc = "apply_ret" /\ ~marker)
          => (~applied /\ clicks = <<>> /\ easy_btn = "none" /\ polls = 0)

\* the classifier said YES, the page does not show the marker, nothing raised
C15_Witness ==
    /\ pc = "apply_ret"
    /\ ~marker
    /\ ~faulted
    /\ calls = 1

ResumeSeq == <<"Replace", "SelectFile", "Upload">>

\* position of the click on Replace among the clicks of the posting (0: none)
ReplaceAt ==
    IF \E k \in 1..Len(clicks) : clicks[k] = "Replace"
    THEN CHOOSE k \in 1..Len(clicks) :
            clicks[k] = "Replace" /\ \A n \in 1..(k - 1) : clicks[n] # "Replace"
    ELSE 0

\* C16: when the wait for the file-remove button finds it, the automator goes on to
\* Replace; the resume actions of a posting are Replace, SelectFile, Upload, one
\* after the other, each at most once; Next or Submit is clicked after Replace only
\* when all three are done, and the step loop runs only then; a resume action that
\* times out ends the flow with False at once: no click on Submit or Next follows.
C16_ResumeReplacedInOrderOnce ==
    /\ [][(ResumeWait /\ Visible("File") /\ ~faulted') => pc' = "resume_replace"]_vars
    /\ [](/\ \A k \in 1..Len(clicks) :
                clicks[k] \in SeqToSet(ResumeSeq) =>
                    /\ ReplaceAt # 0
                    /\ k \in ReplaceAt..(ReplaceAt + 2)
                    /\ clicks[k] = ResumeSeq[k - ReplaceAt + 1]
          /\ \A k \in 1..Len(clicks) :
                (ReplaceAt # 0 /\ k > ReplaceAt /\ clicks[k] \in {"Next", "Submit"})
                    => (k > ReplaceAt + 2 /\ clicks[ReplaceAt + 2] = "Upload")
          /\ pc = "step_loop" =>
                (ReplaceAt # 0 /\ Len(clicks) >= ReplaceAt + 2
                   /\ clicks[ReplaceAt + 2] = "Upload"))
    /\ [][(pc \in {"resume_replace", "resume_select", "resume_upload"}
            /\ pc' = "apply_ret")
              => /\ ~applied'
                 /\ \/ clicks' = clicks
                    \/ \E n \in SeqToSet(ResumeSeq) : clicks' = Append(clicks, n)]_vars

\* Next, then the resume replaced on the second step, then Next and Submit
C16_Witness ==
    /\ pc = "apply_ret"
    /\ applied
    /\ clicks = <<"Apply", "Next", "Replace", "SelectFile", "Upload", "Next", "Submit">>

\* C17: the lines a run has added to the store file are the links of the postings
\* whose handling is finished, each once and in the order handled; the posting in
\* flight (scraped, being classified or in its apply flow) has no line yet, and it
\* is the only handled posting without one; postings are handled in the order of
\* new_links, none twice.
C17_OneAppendAfterOutcome ==
    /\ file.lines = startFile.lines \o Finished
    /\ Len(handled) - Len(Finished) <= 1
    /\ Len(handled) <= Len(new_links)
    /\ handled = SubSeq(new_links, 1, Len(handled))
    /\ \A k1, k2 \in 1..Len(handled) : k1 # k2 => handled[k1] # handled[k2]

\* a run of two postings is over, one of them submitted
C17_Witness ==
    /\ pc = "done"
    /\ Len(handled) = 2
    /\ submitted = 1

\* C18: a posting whose scrape gave no description is committed without a request
\* to the reasoning service and without a click, its link is a line of the store
\* file, and the link is in the set a later run loads from the file (so that the
\* later run does not handle it again).
C18_NoDescriptionSkippedForGood ==
    (pc = "loop" /\ handled # <<>> /\ job_description = <<>>) =>
        /\ calls = 0
        /\ clicks = <<>>
        /\ LastHandled \in FileLinks
        /\ LastHandled \in LoadSeenLinks(file)

\* C19: the page loop makes one attempt for each page 1, 2, ..., total_pages in
\* turn, whatever attempts fail; an iteration only adds to the jobs collected; and
\* the list returned is the de-duplicated postings of the pages that were fetched.
C19_FailedPagesAreSkipped ==
    /\ [][(pc = "scr_page" /\ pc' = "scr_page")
              => /\ p' = p + 1
                 /\ Len(attempts') = p
                 /\ IsPrefix(jobs, jobs')
                 /\ IsPrefix(fetched, fetched')]_vars
    /\ [](pc = "scr_done" =>
              /\ Len(attempts) = total_pages
              /\ jobs = DedupJobs(ParseAnchors(fetched)))

\* the first of two pages failed and the second gave postings
C19_Witness ==
    /\ pc = "scr_done"
    /\ attempts = <<FALSE, TRUE>>
    /\ jobs # <<>>

\* the first response was received and its indicator reads "Page <n> of <n>"
WellFormed(first) ==
    /\ first.ok
    /\ Len(first.label) = 4
    /\ first.label[1] = Word("Page")
    /\ IsNum(first.label[2])
    /\ first.label[3] = Word("of")
    /\ IsNum(first.label[4])

\* C20: when scrape_job_listings returns (no step of it raises), the page loop has
\* made as many iterations as the total of a well-formed indicator says, and one
\* iteration when the first request failed or the indicator is absent or malformed.
C20_PagesVisited ==
    pc = "scr_done" =>
        Len(attempts) = IF WellFormed(first_page) THEN first_page.label[4].n ELSE 1

\* an indicator "Page 1 of 2" and two pages visited
C20_Witness ==
    /\ pc = "scr_done"
    /\ WellFormed(first_page)
    /\ first_page.label[4].n = MaxPages
    /\ Len(attempts) = MaxPages

\* every request of the page loop after its first comes after a delay
PagesArePaced ==
    [][(pc = "scr_page" /\ attempts' # attempts /\ attempts # <<>>) => page_delay]_vars

\* every posting of a run after its first is begun after a delay
PostingsArePaced ==
    [][(handled' # handled /\ handled # <<>> /\ handled' # <<>>) => job_delay]_vars

\* C21: on every path through the page loop a delay precedes the next listing-page
\* request, and on every path through the per-posting loop a delay precedes the
\* next posting.
C21_DelayBeforeNextRequest == PagesArePaced /\ PostingsArePaced

\* the postings of this run that ended Submitted
SubmittedCount == Cardinality({k \in 1..Len(outcomes) : outcomes[k] = "Submitted"})

\* C22: the submitted counter is the number of finished postings of the run whose
\* outcome is Submitted, which is at most the number of postings handled; when the
\* summary is printed every new link has been handled, so the attempted count
\* len(new_links) is the number of postings handled.
C22_SubmittedCounter ==
    /\ Len(outcomes) = Len(Finished)
    /\ submitted = SubmittedCount
    /\ submitted <= Len(handled)
    /\ pc = "done" => (Len(handled) = Len(new_links) /\ Len(outcomes) = Len(new_links))

\* a run of two postings: the first submitted, the second failed in its apply flow
C22_Witness ==
    /\ pc = "done"
    /\ outcomes = <<"Submitted", "Failed">>

NoControlVisible == \A c \in Controls : ~Visible(c)

\* C23: when the last look for controls before the resume upload (the wait for the
\* file-remove button and its fallback), or an iteration of the step loop, finds
\* none of Submit, Next and the file-remove button visible, easy_apply_on_job
\* returns False without a click; and after 6 iterations of the step loop that
\* clicked Next it returns False without a further click.
C23_NoControlFails ==
    /\ [][(ResumeWait /\ NoControlVisible)
             => (pc' = "apply_ret" /\ ~applied' /\ clicks' = clicks)]_vars
    /\ [][(StepLoop /\ NoControlVisible)
             => (pc' = "apply_ret" /\ ~applied' /\ clicks' = clicks)]_vars
    /\ [][(StepLoop /\ stepIters = StepLoopMax)
             => (pc' = "apply_ret" /\ ~applied' /\ clicks' = clicks)]_vars
    /\ [](stepIters <= StepLoopMax)

\* the form opened, Next led to a step without any control, the flow failed
C23_Witness ==
    /\ pc = "apply_ret"
    /\ ~applied
    /\ ~faulted
    /\ apply_form_opened
    /\ clicks = <<"Apply", "Next">>
    /\ wstep = 2
    /\ ~pending
    /\ wizard[2] = {}

\* the scraped text holds the words contract, corp, to, corp in a row
TextShowsMarker ==
    \E k \in 1..Len(full_scraped_text) :
        /\ k + 3 <= Len(full_scraped_text)
        /\ full_scraped_text[k] \in {"contract", "Contract"}
        /\ full_scraped_text[k + 1] = "corp"
        /\ full_scraped_text[k + 2] = "to"
        /\ full_scraped_text[k + 3] = "corp"

\* C24: a posting for which Submit was clicked has a description, the marker in its
\* scraped text, the verdict YES, the marker on its page, an apply control found and
\* a form-opened indicator seen.
C24_SubmitOnlyAfterAllGates ==
    "Submit" \in SeqToSet(clicks) =>
        /\ job_description # <<>>
        /\ TextShowsMarker
        /\ verdict = "YES"
        /\ marker
        /\ easy_btn # "none"
        /\ apply_form_opened

\* a posting was submitted without any exception and is committed
C24_Witness ==
    /\ pc = "loop"
    /\ "Submit" \in SeqToSet(clicks)
    /\ ~faulted
    /\ outcomes # <<>>
    /\ outcomes[Len(outcomes)] = "Submitted"

\* C25: easy_apply_on_job returns True exactly when it clicked Submit, and a click on
\* Submit is the last click of the posting (so there is at most one).
C25_SubmittedIffSubmitClicked ==
    /\ pc = "apply_ret" => (applied <=> "Submit" \in SeqToSet(clicks))
    /\ \A k \in 1..Len(clicks) : clicks[k] = "Submit" => k = Len(clicks)

\* C26: the store file, empty before the first run, never holds a link twice.
C26_NoDuplicateLinks ==
    \A k1, k2 \in 1..Len(file.lines) : k1 # k2 => file.lines[k1] # file.lines[k2]

====
